---- MODULE Spec2Model ----
(***************************************************************************)
(* A model of impertinence: tags of path rules are compiled into a rule    *)
(* tree (add_rules_to_tree), the directory tree is walked once, every      *)
(* visited path is evaluated against the rules resolved for it, and the    *)
(* per-rule-set verdicts are combined by the Or / Nor / And command.       *)
(*                                                                         *)
(* Paths are sequences of path components.  An Option<PathBuf> is a       *)
(* sequence of length 0 (None) or 1 (Some(path)).                          *)
(***************************************************************************)
EXTENDS Integers, Sequences, FiniteSets, TLC

VARIABLES
    config,     \* the parsed configuration: base_path, follow_links, tags
    mode,       \* the command: "or", "nor" or "and"
    argrules,   \* args.rules(): the requested tag names
    fs,         \* what the traversal yields: relative path -> entry or error
    pc,         \* position in main
    argi,       \* index of the add_rules_to_tree call in progress (0-based)
    stack,      \* add_rules_to_tree: the work stack `rules`
    added,      \* add_rules_to_tree: the set `added`
    rules,      \* main: the rule tree `rules`
    walker,     \* the traversal: entries not yet yielded, next one first
    path,       \* main: `path` of the entry being evaluated
    i,          \* main: index of the rule-set being evaluated
    matches,    \* main: `matches` of the entry being evaluated
    out         \* the lines printed so far

vars == <<config, mode, argrules, fs, pc, argi, stack, added, rules,
          walker, path, i, matches, out>>

(***************************************************************************)
(* Values                                                                  *)
(***************************************************************************)
None == <<>>
Some(p) == <<p>>

\* config::Rule
CExact(p) == [kind |-> "Exact", path |-> p, sfx |-> <<>>, target |-> None, tag |-> ""]
CDir(p) == [kind |-> "Dir", path |-> p, sfx |-> <<>>, target |-> None, tag |-> ""]
CFile(p) == [kind |-> "File", path |-> p, sfx |-> <<>>, target |-> None, tag |-> ""]
CSuffix(p, s) == [kind |-> "Suffix", path |-> p, sfx |-> s, target |-> None, tag |-> ""]
CSymLink(p, t) == [kind |-> "SymLink", path |-> p, sfx |-> <<>>, target |-> t, tag |-> ""]
CSymLinkDir(p, t) == [kind |-> "SymLinkDir", path |-> p, sfx |-> <<>>, target |-> t, tag |-> ""]
CMountPoint(p) == [kind |-> "MountPoint", path |-> p, sfx |-> <<>>, target |-> None, tag |-> ""]
CTag(n) == [kind |-> "Tag", path |-> <<>>, sfx |-> <<>>, target |-> None, tag |-> n]

\* main.rs Rule
Plain(n) == [kind |-> "Plain", name |-> n, path |-> <<>>, target |-> None]
MountPoint(n) == [kind |-> "MountPoint", name |-> n, path |-> <<>>, target |-> None]
SymLink(n, t) == [kind |-> "SymLink", name |-> n, path |-> <<>>, target |-> t]
SymLinkDir(n, t) == [kind |-> "SymLinkDir", name |-> n, path |-> <<>>, target |-> t]
Suffix(n, s) == [kind |-> "Suffix", name |-> n, path |-> s, target |-> None]
Exact(n, p) == [kind |-> "Exact", name |-> n, path |-> p, target |-> None]

\* rule_tree::TreeRule
prepend(r) == [policy |-> "prepend", rule |-> r]
overwrite(r) == [policy |-> "overwrite", rule |-> r]

\* format!("rule{}", i)
KeyOf(n) == <<"rule", n>>

(***************************************************************************)
(* The rule tree.  A tree is a function from (node path, key) to the list  *)
(* of tree rules attached at that node under that key, in insertion order. *)
(***************************************************************************)
EmptyTree == [x \in {} |-> <<>>]

add_rule(tree, p, key, trule) ==
    IF <<p, key>> \in DOMAIN tree
    THEN [tree EXCEPT ![<<p, key>>] = Append(@, trule)]
    ELSE tree @@ (<<p, key>> :> <<trule>>)

NodeRules(tree, p, key) ==
    IF <<p, key>> \in DOMAIN tree THEN tree[<<p, key>>] ELSE <<>>

\* One tree rule met while resolving: an overwrite rule resets what was
\* collected to itself, a prepend rule goes in front of it.
ApplyTreeRuleNoMask(acc, trule) == <<trule.rule>> \o acc
ApplyTreeRule(acc, trule) ==
    IF trule.policy = "overwrite" THEN <<trule.rule>> ELSE <<trule.rule>> \o acc

RECURSIVE ApplyNode(_, _, _)
ApplyNode(acc, list, n) ==
    IF n > Len(list) THEN acc
    ELSE ApplyNode(ApplyTreeRule(acc, list[n]), list, n + 1)

RECURSIVE Resolve(_, _, _, _, _)
Resolve(tree, p, key, n, acc) ==
    IF n > Len(p) THEN acc
    ELSE Resolve(tree, p, key, n + 1,
                 ApplyNode(acc, NodeRules(tree, SubSeq(p, 1, n), key), 1))

get_rules(tree, p, key) == Resolve(tree, p, key, 0, <<>>)

(***************************************************************************)
(* add_rules_to_tree                                                       *)
(***************************************************************************)
\* One `match rule` arm of the for loop: the tree after it.
CompileInsertDirExact(tree, key, rule_name, r) ==
    CASE r.kind = "Suffix" ->
           add_rule(tree, r.path, key, prepend(Suffix(rule_name, r.sfx)))
      [] r.kind = "Dir" ->
           add_rule(tree, r.path, key, prepend(Exact(rule_name, r.path)))
      [] r.kind = "File" ->
           add_rule(tree, r.path, key, overwrite(Plain(rule_name)))
      [] r.kind = "Exact" ->
           add_rule(tree, r.path, key, prepend(Exact(rule_name, r.path)))
      [] r.kind = "MountPoint" ->
           add_rule(tree, r.path, key, prepend(MountPoint(rule_name)))
      [] r.kind = "SymLink" ->
           add_rule(tree, r.path, key, prepend(SymLink(rule_name, r.target)))
      [] r.kind = "SymLinkDir" ->
           add_rule(tree, r.path, key, prepend(SymLinkDir(rule_name, r.target)))
      [] r.kind = "Tag" -> tree

CompileInsertDirPrepend(tree, key, rule_name, r) ==
    CASE r.kind = "Suffix" ->
           add_rule(tree, r.path, key, prepend(Suffix(rule_name, r.sfx)))
      [] r.kind = "Dir" ->
           add_rule(tree, r.path, key, prepend(Plain(rule_name)))
      [] r.kind = "File" ->
           add_rule(tree, r.path, key, overwrite(Plain(rule_name)))
      [] r.kind = "Exact" ->
           add_rule(tree, r.path, key, prepend(Exact(rule_name, r.path)))
      [] r.kind = "MountPoint" ->
           add_rule(tree, r.path, key, prepend(MountPoint(rule_name)))
      [] r.kind = "SymLink" ->
           add_rule(tree, r.path, key, prepend(SymLink(rule_name, r.target)))
      [] r.kind = "SymLinkDir" ->
           add_rule(tree, r.path, key, prepend(SymLinkDir(rule_name, r.target)))
      [] r.kind = "Tag" -> tree

CompileInsert(tree, key, rule_name, r) ==
    CASE r.kind = "Suffix" ->
           add_rule(tree, r.path, key, prepend(Suffix(rule_name, r.sfx)))
      [] r.kind = "Dir" ->
           add_rule(tree, r.path, key, overwrite(Plain(rule_name)))
      [] r.kind = "File" ->
           add_rule(tree, r.path, key, overwrite(Plain(rule_name)))
      [] r.kind = "Exact" ->
           add_rule(tree, r.path, key, prepend(Exact(rule_name, r.path)))
      [] r.kind = "MountPoint" ->
           add_rule(tree, r.path, key, prepend(MountPoint(rule_name)))
      [] r.kind = "SymLink" ->
           add_rule(tree, r.path, key, prepend(SymLink(rule_name, r.target)))
      [] r.kind = "SymLinkDir" ->
           add_rule(tree, r.path, key, prepend(SymLinkDir(rule_name, r.target)))
      [] r.kind = "Tag" -> tree

\* The for loop over one tag's rules: the tree and the work stack after it.
RECURSIVE ExpandTag(_, _, _, _, _, _)
ExpandTag(body, n, key, rule_name, tree, stk) ==
    IF n > Len(body) THEN [tree |-> tree, stack |-> stk]
    ELSE ExpandTag(body, n + 1, key, rule_name,
                   CompileInsert(tree, key, rule_name, body[n]),
                   IF body[n].kind = "Tag" THEN Append(stk, body[n].tag) ELSE stk)

\* config.tags.get(&rule): None when the configuration does not define the tag.
LookupOrDefault(cfg, rule) ==
    IF rule \in DOMAIN cfg.tags THEN Some(cfg.tags[rule]) ELSE Some(<<>>)
Lookup(cfg, rule) ==
    IF rule \in DOMAIN cfg.tags THEN Some(cfg.tags[rule]) ELSE None

\* added.contains(&rule)
AlreadyAddedNever(set, rule) == FALSE
AlreadyAdded(set, rule) == rule \in set

\* rules.pop(): the stack without its last element.
PopKeep(stk) == stk
Pop(stk) == SubSeq(stk, 1, Len(stk) - 1)

Top(stk) == stk[Len(stk)]

\* The key of the i-th call of add_rules_to_tree in main.
CompileKeyShared(m, n) == KeyOf(0)
CompileKeyIndexed(m, n) == KeyOf(n)
CompileKey(m, n) == IF m = "and" THEN KeyOf(n) ELSE KeyOf(0)

\* for (i, rule) in argrules: the call of add_rules_to_tree begins.
CallAddRules ==
    /\ pc = "compile"
    /\ argi < Len(argrules)
    /\ stack' = <<argrules[argi + 1]>>
    /\ added' = {}
    /\ pc' = "expand"
    /\ UNCHANGED <<config, mode, argrules, fs, argi, rules, walker, path, i,
                   matches, out>>

\* while let Some(rule) = rules.pop(): the tag was expanded before.
PopSkip ==
    /\ pc = "expand"
    /\ stack # <<>>
    /\ AlreadyAdded(added, Top(stack))
    /\ stack' = Pop(stack)
    /\ UNCHANGED <<config, mode, argrules, fs, pc, argi, added, rules, walker,
                   path, i, matches, out>>

\* ... a tag not expanded before, defined in the configuration.
PopExpand ==
    /\ pc = "expand"
    /\ stack # <<>>
    /\ ~AlreadyAdded(added, Top(stack))
    /\ Lookup(config, Top(stack)) # None
    /\ LET rule == Top(stack)
           e == ExpandTag(Lookup(config, rule)[1], 1, CompileKey(mode, argi),
                          argrules[argi + 1], rules, Pop(stack))
       IN /\ added' = added \cup {rule}
          /\ rules' = e.tree
          /\ stack' = e.stack
    /\ UNCHANGED <<config, mode, argrules, fs, pc, argi, walker, path, i,
                   matches, out>>

\* ... a tag the configuration does not define: unwrap() panics.
PopUndefined ==
    /\ pc = "expand"
    /\ stack # <<>>
    /\ ~AlreadyAdded(added, Top(stack))
    /\ Lookup(config, Top(stack)) = None
    /\ added' = added \cup {Top(stack)}
    /\ stack' = Pop(stack)
    /\ pc' = "panic"
    /\ UNCHANGED <<config, mode, argrules, fs, argi, rules, walker, path, i,
                   matches, out>>

\* The work stack is empty: add_rules_to_tree returns.
ReturnAddRules ==
    /\ pc = "expand"
    /\ stack = <<>>
    /\ argi' = argi + 1
    /\ pc' = "compile"
    /\ UNCHANGED <<config, mode, argrules, fs, stack, added, rules, walker,
                   path, i, matches, out>>

\* All requested tags are compiled: the walk begins at the base path.
StartWalk ==
    /\ pc = "compile"
    /\ argi = Len(argrules)
    /\ walker' = << <<>> >>
    /\ pc' = "walk"
    /\ UNCHANGED <<config, mode, argrules, fs, argi, stack, added, rules, path,
                   i, matches, out>>

(***************************************************************************)
(* The traversal and the entry's metadata                                  *)
(***************************************************************************)
\* Path::starts_with, Path::ends_with: by whole components.
StartsWith(p, prefix) ==
    /\ Len(prefix) <= Len(p)
    /\ SubSeq(p, 1, Len(prefix)) = prefix

EndsWith(p, sfx) ==
    /\ Len(sfx) <= Len(p)
    /\ SubSeq(p, Len(p) - Len(sfx) + 1, Len(p)) = sfx

\* f.path(): the entry's path, the base path included.
FullPath(p) == config.base_path \o p

\* f.path_is_symlink()
PathIsSymlink(p) == fs[p].kind = "symlink"

\* f.file_type().is_dir(): of the link's target when links are followed.
FileTypeIsDir(p) ==
    \/ fs[p].kind = "dir"
    \/ fs[p].kind = "symlink" /\ config.follow_links /\ fs[p].to_dir

\* The traversal yields Err for this item: .flatten() drops it.
YieldsErrNever(p) == FALSE
YieldsErr(p) == fs[p].kind = "error"

\* The items below p, in the order the traversal yields them.
ChildPaths(p) ==
    IF FileTypeIsDir(p)
    THEN [k \in 1..Len(fs[p].children) |-> Append(p, fs[p].children[k])]
    ELSE <<>>

is_symlink_to(p, target) ==
    /\ fs[p].kind = "symlink"
    /\ StartsWith(fs[p].link, target)

RECURSIVE is_symlink_dir_to(_, _)
is_symlink_dir_to(p, target) ==
    /\ fs[p].kind = "dir" \/ (fs[p].kind = "symlink" /\ fs[p].to_dir)
    /\ \A k \in 1..Len(fs[p].children) :
          LET w == Append(p, fs[p].children[k])
          IN \/ fs[w].kind = "symlink" /\ is_symlink_to(w, target)
             \/ fs[w].kind = "dir" /\ is_symlink_dir_to(w, target)

(***************************************************************************)
(* The evaluation of one entry                                             *)
(***************************************************************************)
\* The rule a true SymLinkDir or Suffix match adds at the entry's path.
MemoRulePrepend(rule_name) == prepend(Plain(rule_name))
MemoRuleNotPlain(rule_name) == overwrite(Exact(rule_name, <<>>))
MemoRule(rule_name) == overwrite(Plain(rule_name))

\* The conditions of the arms of `match rule.get()`.
SymLinkCond(rule, p) ==
    /\ PathIsSymlink(p)
    /\ (rule.target = None \/ is_symlink_to(p, rule.target[1]))

SymLinkDirCond(rule, p) ==
    /\ ~PathIsSymlink(p)
    /\ FileTypeIsDir(p)
    /\ (rule.target = None \/ is_symlink_dir_to(p, rule.target[1]))

SuffixCond(rule, p) == EndsWith(FullPath(p), rule.path)

ExactCond(rule, p) == p = rule.path

\* What the arm of a MountPoint rule does to acc: todo!() panics.
MountPointArmNoMatch(acc) == acc
MountPointArm(acc) == [acc EXCEPT !.panic = TRUE]

\* One arm of `match rule.get()`.  acc: m, add_rules, and whether todo!()
\* was reached (nothing after it runs).
EvalRuleLastWins(acc, rule, p) ==
    IF acc.panic THEN acc
    ELSE CASE rule.kind = "Plain" -> [acc EXCEPT !.m = TRUE]
           [] rule.kind = "SymLink" -> [acc EXCEPT !.m = SymLinkCond(rule, p)]
           [] rule.kind = "SymLinkDir" ->
                IF SymLinkDirCond(rule, p)
                THEN [acc EXCEPT !.m = TRUE,
                                 !.add_rules = Append(@, MemoRule(rule.name))]
                ELSE [acc EXCEPT !.m = FALSE]
           [] rule.kind = "Suffix" ->
                IF SuffixCond(rule, p)
                THEN [acc EXCEPT !.m = TRUE,
                                 !.add_rules = Append(@, MemoRule(rule.name))]
                ELSE [acc EXCEPT !.m = FALSE]
           [] rule.kind = "Exact" -> [acc EXCEPT !.m = ExactCond(rule, p)]
           [] rule.kind = "MountPoint" -> MountPointArm(acc)

EvalRule(acc, rule, p) ==
    IF acc.panic THEN acc
    ELSE CASE rule.kind = "Plain" -> [acc EXCEPT !.m = TRUE]
           [] rule.kind = "SymLink" ->
                IF SymLinkCond(rule, p) THEN [acc EXCEPT !.m = TRUE] ELSE acc
           [] rule.kind = "SymLinkDir" ->
                IF SymLinkDirCond(rule, p)
                THEN [acc EXCEPT !.m = TRUE,
                                 !.add_rules = Append(@, MemoRule(rule.name))]
                ELSE acc
           [] rule.kind = "Suffix" ->
                IF SuffixCond(rule, p)
                THEN [acc EXCEPT !.m = TRUE,
                                 !.add_rules = Append(@, MemoRule(rule.name))]
                ELSE acc
           [] rule.kind = "Exact" ->
                IF ExactCond(rule, p) THEN [acc EXCEPT !.m = TRUE] ELSE acc
           [] rule.kind = "MountPoint" -> MountPointArm(acc)

\* for rule in r
RECURSIVE EvalRules(_, _, _, _)
EvalRules(acc, r, n, p) ==
    IF n > Len(r) THEN acc
    ELSE EvalRules(EvalRule(acc, r[n], p), r, n + 1, p)

EvalRuleSet(tree, p, key) ==
    EvalRules([m |-> FALSE, add_rules |-> <<>>, panic |-> FALSE],
              get_rules(tree, p, key), 1, p)

\* for rule in add_rules.drain(..)
RECURSIVE DrainAtBase(_, _, _, _, _)
DrainAtBase(tree, p, key, list, n) ==
    IF n > Len(list) THEN tree
    ELSE DrainAtBase(add_rule(tree, <<>>, key, list[n]), p, key, list, n + 1)

RECURSIVE Drain(_, _, _, _, _)
Drain(tree, p, key, list, n) ==
    IF n > Len(list) THEN tree
    ELSE Drain(add_rule(tree, p, key, list[n]), p, key, list, n + 1)

\* let count = ...
Count(m, args) == IF m = "and" THEN Len(args) ELSE 1

AnyTrue(ms) == \E k \in 1..Len(ms) : ms[k]
AllFalse(ms) == \A k \in 1..Len(ms) : ~ms[k]
AllTrue(ms) == \A k \in 1..Len(ms) : ms[k]

\* let m = match args { ... }
CombineOrNegated(m, ms) == IF m = "and" THEN AnyTrue(ms) ELSE AllFalse(ms)
CombineNorNoNegation(m, ms) == IF m = "nor" THEN AllTrue(ms) ELSE AnyTrue(ms)
Combine(m, ms) ==
    CASE m \in {"or", "and"} -> AnyTrue(ms)
      [] m = "nor" -> AllFalse(ms)

\* for f in walker.into_iter().flatten(): the next entry.
NextEntry ==
    /\ pc = "walk"
    /\ walker # <<>>
    /\ ~YieldsErr(Head(walker))
    /\ path' = Head(walker)
    /\ walker' = ChildPaths(Head(walker)) \o Tail(walker)
    /\ matches' = <<>>
    /\ i' = 0
    /\ pc' = "eval"
    /\ UNCHANGED <<config, mode, argrules, fs, argi, stack, added, rules, out>>

\* ... the next item is an Err: the loop body does not run for it.
SkipErr ==
    /\ pc = "walk"
    /\ walker # <<>>
    /\ YieldsErr(Head(walker))
    /\ walker' = Tail(walker)
    /\ UNCHANGED <<config, mode, argrules, fs, pc, argi, stack, added, rules,
                   path, i, matches, out>>

\* for i in 0..count: one rule-set evaluated, its add_rules drained.
EvalOne ==
    /\ pc = "eval"
    /\ i < Count(mode, argrules)
    /\ LET e == EvalRuleSet(rules, path, KeyOf(i))
       IN /\ ~e.panic
          /\ rules' = Drain(rules, path, KeyOf(i), e.add_rules, 1)
          /\ matches' = Append(matches, e.m)
    /\ i' = i + 1
    /\ UNCHANGED <<config, mode, argrules, fs, pc, argi, stack, added, walker,
                   path, out>>

\* ... a MountPoint rule is met: todo!() panics.
EvalPanic ==
    /\ pc = "eval"
    /\ i < Count(mode, argrules)
    /\ EvalRuleSet(rules, path, KeyOf(i)).panic
    /\ pc' = "panic"
    /\ UNCHANGED <<config, mode, argrules, fs, argi, stack, added, rules,
                   walker, path, i, matches, out>>

\* The verdicts are combined and the path is printed or not.
Emit ==
    /\ pc = "eval"
    /\ i = Count(mode, argrules)
    /\ out' = IF Combine(mode, matches) THEN Append(out, path) ELSE out
    /\ pc' = "walk"
    /\ UNCHANGED <<config, mode, argrules, fs, argi, stack, added, rules,
                   walker, path, i, matches>>

\* The traversal is exhausted: main returns.
WalkDone ==
    /\ pc = "walk"
    /\ walker = <<>>
    /\ pc' = "done"
    /\ UNCHANGED <<config, mode, argrules, fs, argi, stack, added, rules,
                   walker, path, i, matches, out>>

Next ==
    \/ CallAddRules
    \/ PopSkip
    \/ PopExpand
    \/ PopUndefined
    \/ ReturnAddRules
    \/ StartWalk
    \/ NextEntry
    \/ SkipErr
    \/ EvalOne
    \/ EvalPanic
    \/ Emit
    \/ WalkDone

(***************************************************************************)
(* The inputs                                                              *)
(***************************************************************************)
MaxTagRules == 2
MaxArgs == 2

Tags == {"t", "u"}

\* The rules a tag of the configuration may declare, in the order in which
\* it declares those it does.
RuleMenu ==
    << CMountPoint(<<"a">>), CSuffix(<<>>, <<"a">>), CSymLinkDir(<<"a">>, None),
       CDir(<<"a">>), CTag("u") >>

\* The elements of menu at the indices in S, in the menu's order.
RECURSIVE Pick(_, _, _)
Pick(menu, S, k) ==
    IF k > Len(menu) THEN <<>>
    ELSE (IF k \in S THEN <<menu[k]>> ELSE <<>>) \o Pick(menu, S, k + 1)

Bodies(menu, n) ==
    { Pick(menu, S, 1) : S \in { X \in SUBSET (1..Len(menu)) : Cardinality(X) <= n } }

Configs(menu) ==
    { [base_path |-> <<"home">>, follow_links |-> FALSE, tags |-> tg] :
        tg \in UNION { [D -> Bodies(menu, MaxTagRules)] : D \in SUBSET Tags } }

\* The first requested tag is "t", the tag that may reference the other one.
ArgRules(m) ==
    { a \in UNION { [1..k -> Tags] : k \in 1..MaxArgs } :
        /\ a[1] = "t"
        /\ m = "and" => Len(a) >= 2 }

File == [kind |-> "file", link |-> <<>>, to_dir |-> FALSE, children |-> <<>>]
Dir(ch) == [kind |-> "dir", link |-> <<>>, to_dir |-> FALSE, children |-> ch]
Link(l) == [kind |-> "symlink", link |-> l, to_dir |-> FALSE, children |-> <<>>]
ErrItem == [kind |-> "error", link |-> <<>>, to_dir |-> FALSE, children |-> <<>>]

\* home/{a/{b}, e, c}: the traversal yields Err for e.
FsMain ==
    (<<>> :> Dir(<<"a", "e", "c">>)) @@ (<<"a">> :> Dir(<<"b">>))
    @@ (<<"a", "b">> :> File) @@ (<<"e">> :> ErrItem) @@ (<<"c">> :> File)

InitWith(cfgs, fss) ==
    /\ config \in cfgs
    /\ mode \in {"or", "nor", "and"}
    /\ argrules \in ArgRules(mode)
    /\ fs \in fss
    /\ pc = "compile"
    /\ argi = 0
    /\ stack = <<>>
    /\ added = {}
    /\ rules = EmptyTree
    /\ walker = <<>>
    /\ path = <<>>
    /\ i = 0
    /\ matches = <<>>
    /\ out = <<>>

Init == InitWith(Configs(RuleMenu), {FsMain})

Spec == Init /\ [][Next]_vars

(***************************************************************************)
(* A run computed as a function of its inputs, by the same steps as the    *)
(* actions take: the while loop of add_rules_to_tree, the calls of main,   *)
(* the loop over the traversal.                                            *)
(***************************************************************************)
RECURSIVE CompileLoop(_, _, _, _, _)
CompileLoop(key, rule_name, stk, add, tree) ==
    IF stk = <<>> THEN [ok |-> TRUE, tree |-> tree]
    ELSE IF AlreadyAdded(add, Top(stk))
         THEN CompileLoop(key, rule_name, Pop(stk), add, tree)
         ELSE IF Lookup(config, Top(stk)) = None
              THEN [ok |-> FALSE, tree |-> tree]
              ELSE LET e == ExpandTag(Lookup(config, Top(stk))[1], 1, key,
                                      rule_name, tree, Pop(stk))
                   IN CompileLoop(key, rule_name, e.stack,
                                  add \cup {Top(stk)}, e.tree)

RECURSIVE CompileAll(_, _, _, _)
CompileAll(m, args, n, tree) ==
    IF n >= Len(args) THEN [ok |-> TRUE, tree |-> tree]
    ELSE LET c == CompileLoop(CompileKey(m, n), args[n + 1],
                              <<args[n + 1]>>, {}, tree)
         IN IF c.ok THEN CompileAll(m, args, n + 1, c.tree) ELSE c

RECURSIVE EvalAll(_, _, _, _, _)
EvalAll(tree, p, n, cnt, ms) ==
    IF n >= cnt THEN [panic |-> FALSE, tree |-> tree, matches |-> ms]
    ELSE LET e == EvalRuleSet(tree, p, KeyOf(n))
         IN IF e.panic THEN [panic |-> TRUE, tree |-> tree, matches |-> ms]
            ELSE EvalAll(Drain(tree, p, KeyOf(n), e.add_rules, 1), p, n + 1,
                         cnt, Append(ms, e.m))

RECURSIVE WalkAll(_, _, _, _, _)
WalkAll(m, cnt, tree, wk, o) ==
    IF wk = <<>> THEN [panic |-> FALSE, out |-> o]
    ELSE IF YieldsErr(Head(wk)) THEN WalkAll(m, cnt, tree, Tail(wk), o)
    ELSE LET e == EvalAll(tree, Head(wk), 0, cnt, <<>>)
         IN IF e.panic THEN [panic |-> TRUE, out |-> o]
            ELSE WalkAll(m, cnt, e.tree, ChildPaths(Head(wk)) \o Tail(wk),
                         IF Combine(m, e.matches) THEN Append(o, Head(wk)) ELSE o)

\* The lines a run of command m with the requested tags args prints.
RunOut(m, args) ==
    LET c == CompileAll(m, args, 0, EmptyTree)
    IN IF c.ok THEN WalkAll(m, Count(m, args), c.tree, << <<>> >>, <<>>).out
       ELSE <<>>

Range(f) == { f[k] : k \in DOMAIN f }

\* The order in which the loop body runs for the entries.
RECURSIVE TraversalOrder(_)
TraversalOrder(wk) ==
    IF wk = <<>> THEN <<>>
    ELSE IF YieldsErr(Head(wk)) THEN TraversalOrder(Tail(wk))
    ELSE <<Head(wk)>> \o TraversalOrder(ChildPaths(Head(wk)) \o Tail(wk))

\* The entries the traversal yields as Ok.
Entries == { p \in DOMAIN fs : fs[p].kind # "error" }

IndexIn(p, order) == CHOOSE k \in 1..Len(order) : order[k] = p

\* The entries the loop body has run to its end for.
WalkStarted == pc \in {"walk", "eval", "done"} \/ (pc = "panic" /\ argi = Len(argrules))
EntryDone == pc \in {"walk", "done"} /\ Len(matches) = Count(mode, argrules)
Completed ==
    IF ~WalkStarted \/ (pc = "walk" /\ matches = <<>> /\ walker = << <<>> >>)
    THEN {}
    ELSE LET order == TraversalOrder(<< <<>> >>)
             k == IndexIn(path, order)
         IN { order[j] : j \in 1..(IF EntryDone THEN k ELSE k - 1) }

(***************************************************************************)
(* The combinator                                                          *)
(***************************************************************************)
\* C2: in And mode a visited path is emitted iff all the per-rule-set
\* verdicts of the path are true.
C2_AndEmitsIffAll ==
    (mode = "and" /\ EntryDone) => (path \in Range(out) <=> AllTrue(matches))

\* C3: in Or mode a visited path is emitted iff at least one rule-set
\* verdict of the path is true.
C3_OrEmitsIffAny ==
    (mode = "or" /\ EntryDone) => (path \in Range(out) <=> AnyTrue(matches))

C3_Witness ==
    /\ mode = "or"
    /\ EntryDone
    /\ matches = <<TRUE>>
    /\ path \in Range(out)
    /\ <<>> \in Completed \ Range(out)

\* C4: in Nor mode a visited path is emitted iff every rule-set verdict of
\* the path is false, and the paths emitted are the visited paths that the Or
\* command does not emit for the same configuration, tags and filesystem.
C4_NorComplementsOr ==
    mode = "nor" =>
        /\ EntryDone => (path \in Range(out) <=> AllFalse(matches))
        /\ pc \in {"done", "panic"} =>
              Range(out) = Completed \ Range(RunOut("or", argrules))

C4_Witness ==
    /\ mode = "nor"
    /\ pc = "done"
    /\ Range(out) # {}
    /\ Range(RunOut("or", argrules)) # {}

(***************************************************************************)
(* Undefined tags                                                          *)
(***************************************************************************)
\* The tags a tag of the configuration references.
Refs(tag) ==
    IF tag \in DOMAIN config.tags
    THEN { config.tags[tag][k].tag :
             k \in { n \in 1..Len(config.tags[tag]) : config.tags[tag][n].kind = "Tag" } }
    ELSE {}

RECURSIVE ReachSet(_)
ReachSet(S) ==
    LET N == S \cup UNION { Refs(t) : t \in S }
    IN IF N = S THEN S ELSE ReachSet(N)

\* The tags reachable from a tag through tag references, the tag included.
Reach(tag) == ReachSet({tag})

UndefinedReachable ==
    \E k \in 1..Len(argrules) : \E t \in Reach(argrules[k]) : t \notin DOMAIN config.tags

\* C7: when a requested tag, or a tag reachable from one, is not defined,
\* the run aborts during compilation: the calls of add_rules_to_tree never
\* all return, the walk never starts and nothing is printed.
C7_UndefinedTagAborts ==
    UndefinedReachable =>
        /\ pc \in {"compile", "expand", "panic"}
        /\ argi < Len(argrules)
        /\ walker = <<>>
        /\ out = <<>>
        /\ pc = "panic" \/ ENABLED Next

C7_Witness ==
    /\ UndefinedReachable
    /\ pc = "panic"
    /\ argi = 1
    /\ rules # EmptyTree

(***************************************************************************)
(* MountPoint rules                                                        *)
(***************************************************************************)
HasMountPoint(list) == \E k \in 1..Len(list) : list[k].kind = "MountPoint"
HasPlain(list) == \E k \in 1..Len(list) : list[k].kind = "Plain"

\* The keys of the rule-sets the walk evaluates.
EvaluatedKeys == { KeyOf(k) : k \in 0..(Count(mode, argrules) - 1) }

\* A MountPoint rule is in the list resolved for the entry being evaluated.
MountPointMet ==
    /\ pc = "eval"
    /\ i < Count(mode, argrules)
    /\ HasMountPoint(get_rules(rules, path, KeyOf(i)))

\* C9 as stated: a rule-set that contains a MountPoint rule never completes
\* the walk.
C9_MountPointRuleSetFails ==
    pc = "done" =>
        \A x \in DOMAIN rules :
            x[2] \in EvaluatedKeys =>
                \A k \in 1..Len(rules[x]) : rules[x][k].rule.kind # "MountPoint"

\* C9 as amended: a MountPoint rule in the list resolved for a visited path
\* makes the run fail there: the evaluation never gets past a rule-set whose
\* resolved list holds a MountPoint rule, and a run that completes the walk
\* has visited every path and resolved a MountPoint rule for none of them.
C9_ResolvedMountPointFails ==
    /\ pc = "eval" =>
          \A k \in 0..(i - 1) :
              ~HasMountPoint(get_rules(rules, path, KeyOf(k)))
    /\ pc \in {"walk", "eval", "done"} =>
          \A q \in Completed : \A key \in EvaluatedKeys :
              ~HasMountPoint(get_rules(rules, q, key))
    /\ pc = "done" => Completed = Entries

C9_Witness ==
    /\ pc = "panic"
    /\ argi = Len(argrules)
    /\ HasMountPoint(get_rules(rules, path, KeyOf(i)))

\* C10: when a MountPoint rule is in the list resolved for a visited path
\* the run aborts at once: that path is not printed, even when a rule before
\* it in the list matched, and no path later in the traversal is printed.
C10_MountPointAbortsAtOnce ==
    /\ [][MountPointMet => (pc' = "panic" /\ out' = out)]_vars
    /\ []((pc = "panic" /\ argi = Len(argrules)) =>
            /\ path \notin Range(out)
            /\ Range(out) \subseteq Completed
            /\ ~ENABLED Next)

C10_Witness ==
    /\ pc = "panic"
    /\ argi = Len(argrules)
    /\ out # <<>>
    /\ walker # <<>>
    /\ LET r == get_rules(rules, path, KeyOf(i))
       IN /\ r[1].kind = "SymLinkDir" /\ SymLinkDirCond(r[1], path)
          /\ HasMountPoint(r)

(***************************************************************************)
(* Memoization                                                             *)
(***************************************************************************)
\* A Suffix or SymLinkDir rule of the list evaluates true at p.
Triggers(list, p) ==
    { k \in 1..Len(list) :
        \/ list[k].kind = "Suffix" /\ SuffixCond(list[k], p)
        \/ list[k].kind = "SymLinkDir" /\ SymLinkDirCond(list[k], p) }

\* The index of the last overwrite rule of a node's list, 0 when it has none.
LastMaskIndex(l) ==
    IF \E k \in 1..Len(l) : l[k].policy = "overwrite"
    THEN CHOOSE k \in 1..Len(l) :
            /\ l[k].policy = "overwrite"
            /\ \A j \in (k + 1)..Len(l) : l[j].policy # "overwrite"
    ELSE 0

\* The list resolved for q, at or below p, from the last overwrite rule at p
\* downwards: nothing attached above p, or at p before that rule, is in it.
ResolveBelowMask(tree, p, q, key) ==
    LET l == NodeRules(tree, p, key)
    IN Resolve(tree, q, key, Len(p) + 1,
               ApplyNode(<<>>, SubSeq(l, LastMaskIndex(l), Len(l)), 1))

\* p and every entry below p resolve to a list with a Plain rule and without
\* the rules inherited from above the mask at p, and get the verdict true.
MaskedAt(tree, p, key) ==
    \A q \in DOMAIN fs :
        StartsWith(q, p) =>
            /\ HasPlain(get_rules(tree, q, key))
            /\ get_rules(tree, q, key) = ResolveBelowMask(tree, p, q, key)
            /\ LET e == EvalRuleSet(tree, q, key) IN e.panic \/ e.m

NoMaskDeclared ==
    \A t \in DOMAIN config.tags : \A k \in 1..Len(config.tags[t]) :
        config.tags[t][k].kind \notin {"Dir", "File"}

MaxInserts == 4

TreePaths == { <<>>, <<"a">>, <<"a", "b">> }
TreeKeys == { KeyOf(0), KeyOf(1) }
TreeRules ==
    { prepend(Suffix("t", <<"x">>)), prepend(Exact("t", <<"a">>)),
      overwrite(Plain("t")), overwrite(Plain("u")) }

\* The number of rules in a tree.
RECURSIVE TreeSize(_)
TreeSize(tree) ==
    IF DOMAIN tree = {} THEN 0
    ELSE LET x == CHOOSE y \in DOMAIN tree : TRUE
         IN Len(tree[x]) + TreeSize([y \in DOMAIN tree \ {x} |-> tree[y]])

TreeInit ==
    /\ config = [base_path |-> <<"home">>, follow_links |-> FALSE,
                 tags |-> [t \in Tags |-> <<>>]]
    /\ mode = "and"
    /\ argrules = <<"t", "u">>
    /\ fs = FsMain
    /\ pc = "tree"
    /\ argi = 0
    /\ stack = <<>>
    /\ added = {}
    /\ rules = EmptyTree
    /\ walker = <<>>
    /\ path = <<>>
    /\ i = 0
    /\ matches = <<>>
    /\ out = <<>>

\* tree.add_rule(path, key, rule)
TreeAddRule ==
    /\ pc = "tree"
    /\ TreeSize(rules) < MaxInserts
    /\ \E p \in TreePaths, key \in TreeKeys, trule \in TreeRules :
          rules' = add_rule(rules, p, key, trule)
    /\ UNCHANGED <<config, mode, argrules, fs, pc, argi, stack, added, walker,
                   path, i, matches, out>>

TreeNext == TreeAddRule

TreeSpec == TreeInit /\ [][TreeNext]_vars

\* The two lists hold the same elements the same number of times.
SameElements(l1, l2) ==
    \A v \in Range(l1) \cup Range(l2) :
        Cardinality({ k \in 1..Len(l1) : l1[k] = v })
            = Cardinality({ k \in 1..Len(l2) : l2[k] = v })

\* The prepend rules of a node's list.
Prepends(l) ==
    LET RECURSIVE F(_)
        F(n) == IF n > Len(l) THEN <<>>
                ELSE (IF l[n].policy = "prepend" THEN <<l[n].rule>> ELSE <<>>) \o F(n + 1)
    IN F(1)

\* The prepend rules attached at the nodes of the chain to p at depths lo..hi.
RECURSIVE ChainPrepends(_, _, _, _, _)
ChainPrepends(tree, p, key, lo, hi) ==
    IF lo > hi THEN <<>>
    ELSE Prepends(NodeRules(tree, SubSeq(p, 1, lo), key))
             \o ChainPrepends(tree, p, key, lo + 1, hi)

\* On the chain from the root to p, under key: the node at depth a, a proper
\* ancestor of p, carries the mask rule (the last rule of its list, no mask
\* rule is attached below it), and prepend rules are attached both above it
\* and below it.
MaskBetweenAppends(tree, p, key, a) ==
    LET l == NodeRules(tree, SubSeq(p, 1, a), key)
    IN /\ a < Len(p)
       /\ l # <<>>
       /\ l[Len(l)].policy = "overwrite"
       /\ \A n \in (a + 1)..Len(p) :
             LastMaskIndex(NodeRules(tree, SubSeq(p, 1, n), key)) = 0
       /\ ChainPrepends(tree, p, key, 0, a - 1) # <<>>
       /\ ChainPrepends(tree, p, key, a + 1, Len(p)) # <<>>

CompileMenu ==
    << CTag("u"), CTag("v"), CTag("u"), CTag("t"), CFile(<<"f">>) >>

\* "t" and "u" are defined; "v" declares at most one rule, or is not defined.
CompileConfigs ==
    { [base_path |-> <<"home">>, follow_links |-> FALSE, tags |-> tg] :
        tg \in UNION { [ {"t", "u"} -> Bodies(CompileMenu, MaxTagRules) ],
                       { f @@ ("v" :> b) :
                           f \in [ {"t", "u"} -> Bodies(CompileMenu, MaxTagRules) ],
                           b \in Bodies(CompileMenu, 1) } } }

\* One call, or two calls under one key (Or) or under two keys (And).
CompileInit ==
    /\ InitWith(CompileConfigs, {FsMain})
    /\ mode \in {"or", "and"}
    /\ argrules \in { <<"t">>, <<"t", "u">> }

CompileNext ==
    \/ CallAddRules
    \/ PopSkip
    \/ PopExpand
    \/ PopUndefined
    \/ ReturnAddRules

CompileSpec == CompileInit /\ [][CompileNext]_vars

\* main runs on its own thread: a step that can be taken is taken.
FairCompileSpec == CompileSpec /\ WF_vars(CompileNext)

\* Every tag reachable from a requested tag is defined.
AllReachableDefined == ~UndefinedReachable

\* C5: on a tag graph whose referenced tags are all defined, cyclic or not,
\* add_rules_to_tree terminates: its work stack becomes empty.
C5_CompileTerminates ==
    (pc = "expand" /\ AllReachableDefined) ~> (pc = "expand" /\ stack = <<>>)

\* A tag that references itself, directly or through other tags.
OnCycle(tag) == tag \in ReachSet(Refs(tag))

C5_Witness ==
    /\ AllReachableDefined
    /\ pc = "expand"
    /\ stack = <<>>
    /\ argi = 1
    /\ OnCycle("t") /\ "t" \in Refs("t")
    /\ \E tag \in added : tag # "t" /\ OnCycle(tag)

\* The number of times the calls of add_rules_to_tree numbered 0..(n - 1)
\* are to attach the tree rule trule at x = <<node, key>>: once for every
\* declaration, on a tag reachable from the call's root tag, that gives it.
Declared(x, trule, n) ==
    { d \in UNION { { <<j, tag, k>> : k \in 1..Len(config.tags[tag]) } :
                      j \in 0..(n - 1),
                      tag \in DOMAIN config.tags } :
        /\ d[2] \in Reach(argrules[d[1] + 1])
        /\ config.tags[d[2]][d[3]].kind # "Tag"
        /\ CompileInsert(EmptyTree, CompileKey(mode, d[1]), argrules[d[1] + 1],
                         config.tags[d[2]][d[3]])
             = (x :> <<trule>>) }

Occurrences(tree, x, trule) ==
    Cardinality({ k \in 1..Len(NodeRules(tree, x[1], x[2])) :
                    tree[x][k] = trule })

CallReturning == pc = "expand" /\ stack = <<>>

\* C6: a call of add_rules_to_tree expands every tag reachable from its root
\* tag, and only those, and a tag once: when the call returns, every rule
\* declared on a reachable tag is in the tree exactly once per declaration,
\* however the tag is referenced, and no other rule is; before that, at most
\* once.
C6_ExpandedExactlyOnce ==
    /\ pc = "expand" => added \subseteq Reach(argrules[argi + 1])
    /\ CallReturning => added = Reach(argrules[argi + 1])
    /\ \A x \in DOMAIN rules : \A k \in 1..Len(rules[x]) :
          LET n == IF pc = "expand" \/ pc = "panic" THEN argi + 1 ELSE argi
              d == Cardinality(Declared(x, rules[x][k], n))
          IN /\ Occurrences(rules, x, rules[x][k]) <= d
             /\ (CallReturning \/ pc = "compile") =>
                   Occurrences(rules, x, rules[x][k]) = d
    /\ (CallReturning \/ pc = "compile") =>
          \A j \in 0..(IF pc = "expand" THEN argi ELSE argi - 1) :
              \A tag \in Reach(argrules[j + 1]) :
                  \A k \in 1..Len(config.tags[tag]) :
                      config.tags[tag][k].kind # "Tag" =>
                          \E x \in DOMAIN rules : \E n \in 1..Len(rules[x]) :
                              CompileInsert(EmptyTree, CompileKey(mode, j),
                                            argrules[j + 1], config.tags[tag][k])
                                  = (x :> <<rules[x][n]>>)

C6_Witness ==
    /\ CallReturning
    /\ argi = 0
    /\ added = {"t", "u", "v"}
    /\ OnCycle("u")
    /\ Cardinality({ k \in 1..Len(config.tags["t"]) : config.tags["t"][k] = CTag("u") }) = 2
    /\ "v" \in Refs("u")
    /\ TreeSize(rules) = 1
    /\ CFile(<<"f">>) \in Range(config.tags["v"])

(***************************************************************************)
(* The evaluation of single entries: one requested tag whose rules are     *)
(* attached at the base path or just below it, over a directory tree with  *)
(* symlinks, directories of symlinks and regular files.                    *)
(***************************************************************************)
MaxEntryRules == 3

EntryMenu ==
    << CSymLinkDir(<<>>, Some(<<"target">>)), CSymLinkDir(<<"b">>, None),
       CSymLink(<<>>, Some(<<"target">>)), CExact(<<"b">>),
       CSuffix(<<"a">>, <<"d", "m">>), CSuffix(<<>>, <<"home", "b">>),
       CFile(<<"k", "o">>) >>

EntryConfigs ==
    { [base_path |-> <<"home">>, follow_links |-> FALSE, tags |-> ("t" :> b)] :
        b \in Bodies(EntryMenu, MaxEntryRules) }

\* home/{a/{l -> /target/x, d/{m -> /target/y}}, b/{f}, k/{o -> /other/z},
\*       s -> /target/q}
FsLinks ==
    (<<>> :> Dir(<<"a", "b", "k", "s">>))
    @@ (<<"a">> :> Dir(<<"l", "d">>))
    @@ (<<"a", "l">> :> Link(<<"target", "x">>))
    @@ (<<"a", "d">> :> Dir(<<"m">>))
    @@ (<<"a", "d", "m">> :> Link(<<"target", "y">>))
    @@ (<<"b">> :> Dir(<<"f">>))
    @@ (<<"b", "f">> :> File)
    @@ (<<"k">> :> Dir(<<"o">>))
    @@ (<<"k", "o">> :> Link(<<"other", "z">>))
    @@ (<<"s">> :> Link(<<"target", "q">>))

EntryInit ==
    /\ InitWith(EntryConfigs, {FsLinks})
    /\ mode \in {"or", "nor"}
    /\ argrules = <<"t">>

\* The steps of main on these inputs: every tag is defined and expanded
\* once, no MountPoint rule is declared, the traversal yields no Err.
EntryNext ==
    \/ CallAddRules
    \/ PopExpand
    \/ ReturnAddRules
    \/ StartWalk
    \/ NextEntry
    \/ EvalOne
    \/ Emit
    \/ WalkDone

EntrySpec == EntryInit /\ [][EntryNext]_vars

\* The rule-set about to be evaluated for the current entry.
Evaluating == pc = "eval" /\ i < Count(mode, argrules)

\* The list resolved for the current entry under the current rule-set.
Resolved == get_rules(rules, path, KeyOf(i))

\* p is a real directory and every entry below it, at any depth, is a
\* directory or a symlink, the symlinks pointing within target when one is
\* given.
OnlySymlinksBelow(p, target) ==
    /\ fs[p].kind = "dir"
    /\ \A q \in DOMAIN fs :
          (StartsWith(q, p) /\ q # p) =>
              \/ fs[q].kind = "dir"
              \/ /\ fs[q].kind = "symlink"
                 /\ (target = None \/ StartsWith(fs[q].link, target[1]))

\* C11: a SymLinkDir(tag, target?) rule yields a match at a visited entry iff
\* the entry is a real directory and every entry of its transitive content
\* is a symlink, within target when target is given, anywhere when it is
\* omitted.
C11_SymLinkDirIffOnlySymlinks ==
    [][(/\ Evaluating
        /\ Len(Resolved) = 1
        /\ Resolved[1].kind = "SymLinkDir")
       => (/\ Len(matches') = i + 1
           /\ matches'[i + 1] <=> OnlySymlinksBelow(path, Resolved[1].target))]_vars

\* The part of C11 the code agrees with: a rule with a target.
SymLinkDirWithTargetAgrees ==
    [][(/\ Evaluating
        /\ Len(Resolved) = 1
        /\ Resolved[1].kind = "SymLinkDir"
        /\ Resolved[1].target # None)
       => (/\ Len(matches') = i + 1
           /\ matches'[i + 1] <=> OnlySymlinksBelow(path, Resolved[1].target))]_vars

\* C12: for a tag rule Suffix(prefix, sfx), a visited path at or below prefix
\* (the rule is resolved for it) without a matched ancestor (no memoized
\* Plain rule has replaced it) gets the verdict true when the trailing
\* components of the visited path equal sfx, and the verdict false when they
\* differ.
C12_SuffixIffTrailingComponents ==
    [][(/\ Evaluating
        /\ Len(Resolved) = 1
        /\ Resolved[1].kind = "Suffix")
       => (/\ Len(matches') = i + 1
           /\ matches'[i + 1] <=> EndsWith(path, Resolved[1].path))]_vars

\* The part of C12 the code agrees with: a suffix no longer than the visited
\* path.
SuffixWithinPathAgrees ==
    [][(/\ Evaluating
        /\ Len(Resolved) = 1
        /\ Resolved[1].kind = "Suffix"
        /\ Len(Resolved[1].path) <= Len(path))
       => (/\ Len(matches') = i + 1
           /\ matches'[i + 1] <=> EndsWith(path, Resolved[1].path))]_vars

(***************************************************************************)
(* Directory rules end to end                                              *)
(***************************************************************************)
\* The run is `or t` and the only rule of tag t is a directory rule.
OnlyDirRule ==
    /\ mode = "or"
    /\ argrules = <<"t">>
    /\ "t" \in DOMAIN config.tags
    /\ Len(config.tags["t"]) = 1
    /\ config.tags["t"][1].kind = "Dir"

\* C13: with a tag t whose only rule is the directory rule D, the run `or t`
\* emits D and every visited descendant of D and no visited path outside D,
\* and it visits every entry.
C13_DirRuleEmitsSubtree ==
    OnlyDirRule =>
        /\ pc # "panic"
        /\ \A q \in Completed :
              q \in Range(out) <=> StartsWith(q, config.tags["t"][1].path)
        /\ Range(out) \subseteq Completed
        /\ pc = "done" => Completed = Entries

C13_Witness ==
    /\ OnlyDirRule
    /\ pc = "done"
    /\ out = << <<"a">>, <<"a", "b">> >>
    /\ <<"c">> \in Completed

(***************************************************************************)
(* The frame of a memoizing insert                                         *)
(***************************************************************************)
\* The keys a run may use.
AllKeys == { KeyOf(k) : k \in 0..Len(argrules) }

\* C14: the memoizing insert made while evaluating the path P under the key K
\* changes the resolved rule list only for P and the paths below P under K:
\* for every path that is not P or below P, and for every other key, the
\* list resolved after the insert is the list resolved before it.
C14_MemoInsertFrame ==
    [][(Evaluating /\ rules' # rules) =>
          /\ \A x \in DOMAIN rules' :
                x \notin DOMAIN rules \/ rules'[x] # rules[x]
                   => x = <<path, KeyOf(i)>>
          /\ \A q \in DOMAIN fs : \A key \in AllKeys :
                (~StartsWith(q, path) \/ key # KeyOf(i)) =>
                    get_rules(rules', q, key) = get_rules(rules, q, key)]_vars

\* In an And run the first rule-set has just memoized at a: the base path
\* resolves to a non-empty list under that key, and a to a non-empty list
\* under the other key.
C14_Witness ==
    /\ NoMaskDeclared
    /\ mode = "and"
    /\ pc = "eval"
    /\ i = 1
    /\ path = <<"a">>
    /\ NodeRules(rules, <<"a">>, KeyOf(0)) # <<>>
    /\ NodeRules(rules, <<"a">>, KeyOf(0))[Len(NodeRules(rules, <<"a">>, KeyOf(0)))]
          = overwrite(Plain("t"))
    /\ get_rules(rules, <<>>, KeyOf(0)) # <<>>
    /\ get_rules(rules, <<"a">>, KeyOf(1)) # <<>>

(***************************************************************************)
(* Items for which the traversal yields Err                                *)
(***************************************************************************)
\* The entries below p in the directory tree without the Err items.
OkChildPaths(p) == SelectSeq(ChildPaths(p), LAMBDA q : fs[q].kind # "error")

\* The walk over the directory tree without the Err items.
RECURSIVE WalkOk(_, _, _, _, _)
WalkOk(m, cnt, tree, wk, o) ==
    IF wk = <<>> THEN [panic |-> FALSE, out |-> o]
    ELSE LET e == EvalAll(tree, Head(wk), 0, cnt, <<>>)
         IN IF e.panic THEN [panic |-> TRUE, out |-> o]
            ELSE WalkOk(m, cnt, e.tree, OkChildPaths(Head(wk)) \o Tail(wk),
                        IF Combine(m, e.matches) THEN Append(o, Head(wk)) ELSE o)

\* C15: an item for which the traversal yields Err is printed in no mode and
\* does not abort the run: the walk aborts only on a MountPoint rule, and a
\* walk that ends has run the loop body for every other entry, the siblings
\* of the item and the entries after it included, and has printed what the
\* walk over the directory tree without the item prints.
C15_ErrItemSkipped ==
    /\ \A p \in DOMAIN fs : fs[p].kind = "error" => p \notin Range(out)
    /\ (pc = "panic" /\ argi = Len(argrules)) =>
          /\ fs[path].kind # "error"
          /\ HasMountPoint(get_rules(rules, path, KeyOf(i)))
    /\ pc \in {"eval", "walk", "done"} => Completed \subseteq Entries
    /\ pc = "done" =>
          /\ Completed = Entries
          /\ LET c == CompileAll(mode, argrules, 0, EmptyTree)
             IN out = WalkOk(mode, Count(mode, argrules), c.tree, << <<>> >>, <<>>).out

\* A Nor run has ended: c, yielded after the Err item e, is printed.
C15_Witness ==
    /\ mode = "nor"
    /\ pc = "done"
    /\ fs[<<"e">>].kind = "error"
    /\ <<"c">> \in Range(out)
    /\ <<"a">> \in Range(out)
    /\ <<"e">> \notin Range(out)

(***************************************************************************)
(* The verdict of a rule-set                                               *)
(***************************************************************************)
\* The condition of one rule at the entry p.
Cond(rule, p) ==
    CASE rule.kind = "Plain" -> TRUE
      [] rule.kind = "SymLink" -> SymLinkCond(rule, p)
      [] rule.kind = "SymLinkDir" -> SymLinkDirCond(rule, p)
      [] rule.kind = "Suffix" -> SuffixCond(rule, p)
      [] rule.kind = "Exact" -> ExactCond(rule, p)
      [] rule.kind = "MountPoint" -> FALSE

\* The lists with the elements of r in every order.
PermsOf(r) ==
    { [k \in 1..Len(r) |-> r[f[k]]] : f \in Permutations(1..Len(r)) }

\* The verdict the loop over the list r gives at the entry p.
VerdictOf(r, p) ==
    EvalRules([m |-> FALSE, add_rules |-> <<>>, panic |-> FALSE], r, 1, p).m

\* C16: for a resolved list without MountPoint rule the verdict of the
\* rule-set is the disjunction of the conditions of its rules: the loop over
\* the list gives it in whatever order the rules are, once a rule is true no
\* later rule makes it false, and it is the verdict main records.
C16_VerdictIsDisjunction ==
    /\ []((Evaluating /\ ~HasMountPoint(Resolved)) =>
            LET any == \E k \in 1..Len(Resolved) : Cond(Resolved[k], path)
            IN /\ \A q \in PermsOf(Resolved) : VerdictOf(q, path) = any
               /\ \A n \in 0..Len(Resolved) :
                     VerdictOf(SubSeq(Resolved, 1, n), path) => VerdictOf(Resolved, path))
    /\ [][(Evaluating /\ ~HasMountPoint(Resolved)) =>
            /\ Len(matches') = i + 1
            /\ matches'[i + 1] = (\E k \in 1..Len(Resolved) : Cond(Resolved[k], path))]_vars

\* A list of three rules has been evaluated: its first rule is true at the
\* entry, its last rule is not, and the verdict is true.
C16_Witness ==
    /\ pc = "eval"
    /\ i = 1
    /\ matches = <<TRUE>>
    /\ LET r == get_rules(rules, path, KeyOf(0))
       IN /\ Len(r) = 3
          /\ Cond(r[1], path)
          /\ ~Cond(r[2], path)
          /\ ~Cond(r[3], path)
          /\ ~HasPlain(r)

(***************************************************************************)
(* Rule-sets                                                               *)
(***************************************************************************)
\* The loop body run for the entries order[k..n], one after the other.
RECURSIVE EvalPrefix(_, _, _, _, _, _)
EvalPrefix(cnt, tree, order, k, n, vs) ==
    IF k > n THEN [panic |-> FALSE, tree |-> tree, verdicts |-> vs]
    ELSE LET e == EvalAll(tree, order[k], 0, cnt, <<>>)
         IN IF e.panic THEN [panic |-> TRUE, tree |-> tree, verdicts |-> vs]
            ELSE EvalPrefix(cnt, e.tree, order, k + 1, n, Append(vs, e.matches))

\* The run that compiles the tag alone, under rule0, and walks the first n
\* entries of the traversal: the tree and the verdicts of the entries.
Solo(tag, n) ==
    LET c == CompileAll("or", <<tag>>, 0, EmptyTree)
    IN IF c.ok
       THEN EvalPrefix(1, c.tree, TraversalOrder(<< <<>> >>), 1, n, <<>>)
       ELSE [panic |-> TRUE, tree |-> EmptyTree, verdicts |-> <<>>]

\* The rules of the tree under one key: node -> list.
Project(tree, key) ==
    [p \in { x[1] : x \in { y \in DOMAIN tree : y[2] = key } } |-> tree[<<p, key>>]]

\* The number of entries the loop body has run to its end for.
DoneCount == Cardinality(Completed)

\* C17: in And mode the rule-set rule_i is the rule-set of the i-th requested
\* tag alone: after every visited entry the rules of the tree under rule_i
\* are those of the run that compiles that tag alone and walks the same
\* entries, every path resolves under rule_i to the list it resolves to in
\* that run, and the verdict of the entry under rule_i is its verdict there.
C17_RuleSetIsolation ==
    (mode = "and" /\ EntryDone) =>
        \A k \in 1..Len(argrules) :
            LET s == Solo(argrules[k], DoneCount)
            IN /\ ~s.panic
               /\ Project(rules, KeyOf(k - 1)) = Project(s.tree, KeyOf(0))
               /\ \A q \in DOMAIN fs :
                     get_rules(rules, q, KeyOf(k - 1)) = get_rules(s.tree, q, KeyOf(0))
               /\ s.verdicts[DoneCount] = <<matches[k]>>

\* An And run of two tags has ended; both rule-sets memoized at a, from
\* different rules, and the base path resolves differently under the two.
C17_Witness ==
    /\ NoMaskDeclared
    /\ mode = "and"
    /\ argrules = <<"t", "u">>
    /\ pc = "done"
    /\ NodeRules(rules, <<"a">>, KeyOf(0)) = <<overwrite(Plain("t"))>>
    /\ NodeRules(rules, <<"a">>, KeyOf(1))
          = <<prepend(SymLinkDir("u", None)), overwrite(Plain("u"))>>
    /\ get_rules(rules, <<>>, KeyOf(0)) = <<Suffix("t", <<"a">>)>>
    /\ get_rules(rules, <<>>, KeyOf(1)) = <<>>

(***************************************************************************)
(* What add_rules_to_tree inserts                                          *)
(***************************************************************************)
\* The tree rule a declaration is compiled to, for the root tag name root.
ExpectedRule(d, root) ==
    CASE d.kind \in {"Dir", "File"} -> overwrite(Plain(root))
      [] d.kind = "Suffix" -> prepend(Suffix(root, d.sfx))
      [] d.kind = "Exact" -> prepend(Exact(root, d.path))
      [] d.kind = "MountPoint" -> prepend(MountPoint(root))
      [] d.kind = "SymLink" -> prepend(SymLink(root, d.target))
      [] d.kind = "SymLinkDir" -> prepend(SymLinkDir(root, d.target))

\* The tree rules the declarations of body are compiled to at the node p.
ExpectedAt(body, p, root) ==
    LET sel == SelectSeq(body, LAMBDA d : d.kind # "Tag" /\ d.path = p)
    IN [k \in 1..Len(sel) |-> ExpectedRule(sel[k], root)]

\* The tags the declarations of body reference.
ReferencedBy(body) ==
    LET sel == SelectSeq(body, LAMBDA d : d.kind = "Tag")
    IN [k \in 1..Len(sel) |-> sel[k].tag]

\* A tag defined in the configuration is about to be expanded.
Expanding ==
    /\ pc = "expand"
    /\ stack # <<>>
    /\ Top(stack) \notin added
    /\ Top(stack) \in DOMAIN config.tags

\* C18: when add_rules_to_tree(config, key, root) expands a tag, every rule
\* it inserts goes under the caller's key, at the declared path, and carries
\* the root tag name, not the name of the tag that declares it: a directory
\* or file declaration as overwrite Plain(root), every other kind with the
\* prepend policy, one rule per declaration and in the order of the
\* declarations; a tag reference inserts nothing, it is pushed on the stack.
C18_CompilationMapping ==
    [][Expanding =>
         LET body == config.tags[Top(stack)]
             root == argrules[argi + 1]
             key == IF mode = "and" THEN KeyOf(argi) ELSE KeyOf(0)
         IN /\ DOMAIN rules \subseteq DOMAIN rules'
            /\ \A x \in DOMAIN rules' :
                  LET old == NodeRules(rules, x[1], x[2])
                      new == rules'[x]
                  IN /\ Len(old) <= Len(new)
                     /\ SubSeq(new, 1, Len(old)) = old
                     /\ SubSeq(new, Len(old) + 1, Len(new))
                           = IF x[2] = key THEN ExpectedAt(body, x[1], root) ELSE <<>>
            /\ \A k \in 1..Len(body) :
                  body[k].kind # "Tag" => <<body[k].path, key>> \in DOMAIN rules'
            /\ stack' = Pop(stack) \o ReferencedBy(body)]_vars

\* The tag u, referenced by the requested tag t, has been expanded: its
\* mount-point and directory declarations are in the tree under the name t.
C18_Witness ==
    /\ pc = "expand"
    /\ argrules[argi + 1] = "t"
    /\ added = {"t", "u"}
    /\ "t" \in DOMAIN config.tags /\ config.tags["t"] = <<CTag("u")>>
    /\ NodeRules(rules, <<"a">>, KeyOf(0))
          = <<prepend(MountPoint("t")), overwrite(Plain("t"))>>

(***************************************************************************)
(* The shared rule-set of Or and Nor                                       *)
(***************************************************************************)
NoMountPointDeclared ==
    \A t \in DOMAIN config.tags : \A k \in 1..Len(config.tags[t]) :
        config.tags[t][k].kind # "MountPoint"

\* C19: Or and Nor compile every requested tag under rule0, and without
\* MountPoint rules the verdict of every visited entry under this shared
\* rule-set is the disjunction of the verdicts the entry gets in the runs
\* that compile each requested tag alone.
C19_SharedRuleSetIsDisjunction ==
    (mode \in {"or", "nor"} /\ NoMountPointDeclared) =>
        /\ \A x \in DOMAIN rules : x[2] = KeyOf(0)
        /\ EntryDone =>
              /\ \A k \in 1..Len(argrules) : ~Solo(argrules[k], DoneCount).panic
              /\ matches = << \E k \in 1..Len(argrules) :
                                Solo(argrules[k], DoneCount).verdicts[DoneCount][1] >>

\* Two tags are requested: at a the directory rule of u hides the suffix
\* rule of t, attached at the base path, and the verdict is true.
C19_Witness ==
    /\ mode \in {"or", "nor"}
    /\ NoMountPointDeclared
    /\ argrules = <<"t", "u">>
    /\ EntryDone
    /\ path = <<"a">>
    /\ matches = <<TRUE>>
    /\ get_rules(rules, <<>>, KeyOf(0)) = <<Suffix("t", <<"a">>)>>
    /\ get_rules(rules, <<"a">>, KeyOf(0)) = <<Plain("u")>>
    /\ Solo("t", DoneCount).verdicts[DoneCount][1]

(***************************************************************************)
(* Mask rules                                                              *)
(***************************************************************************)
\* An overwrite rule is attached at p or at an ancestor of p under key.
HasMask(tree, p, key) ==
    \E n \in 0..Len(p) : LastMaskIndex(NodeRules(tree, SubSeq(p, 1, n), key)) > 0

\* C20 as stated: once a path has a mask rule at it or at an ancestor under
\* the key K, the verdict recorded for it under K is true.
C20_MaskedVerdictTrue ==
    [][(Evaluating /\ HasMask(rules, path, KeyOf(i))) =>
          /\ Len(matches') = i + 1
          /\ matches'[i + 1]]_vars

\* C20 as amended: every rule stored with the overwrite policy is a Plain
\* rule and the tree is insert-only; a path with a mask rule at it or at an
\* ancestor under K gets the verdict true under K, for the rest of the walk,
\* unless a MountPoint rule attached after the mask, at the mask's node or
\* below it, is resolved for the path: then its evaluation aborts the run.
C20_MasksArePlainAndStick ==
    /\ [](\A x \in DOMAIN rules : \A k \in 1..Len(rules[x]) :
            rules[x][k].policy = "overwrite" => rules[x][k].rule.kind = "Plain")
    /\ [][\A x \in DOMAIN rules :
            /\ x \in DOMAIN rules'
            /\ Len(rules[x]) <= Len(rules'[x])
            /\ SubSeq(rules'[x], 1, Len(rules[x])) = rules[x]]_vars
    /\ [](\A key \in AllKeys : \A p \in Entries :
            HasMask(rules, p, key) =>
                LET e == EvalRuleSet(rules, p, key)
                IN IF HasMountPoint(get_rules(rules, p, key))
                   THEN e.panic
                   ELSE ~e.panic /\ e.m)
    /\ [][(Evaluating /\ HasMask(rules, path, KeyOf(i))) =>
            IF HasMountPoint(Resolved)
            THEN pc' = "panic" /\ matches' = matches
            ELSE Len(matches') = i + 1 /\ matches'[i + 1]]_vars

\* The directory rule of t masks a and the mount-point rule of u, compiled
\* after it under the same key, is resolved for a: the run has aborted at a.
C20_Witness ==
    /\ pc = "panic"
    /\ argi = Len(argrules)
    /\ path = <<"a">>
    /\ NodeRules(rules, <<"a">>, KeyOf(i))
          = <<overwrite(Plain("t")), prepend(MountPoint("u"))>>
    /\ get_rules(rules, path, KeyOf(i)) = <<MountPoint("u"), Plain("t")>>

(***************************************************************************)
(* The order of the traversal: the walk with the entries yielded in any    *)
(* order that yields a directory before the entries below it.              *)
(***************************************************************************)
\* The sequence without its k-th element.
RemoveAt(s, k) == SubSeq(s, 1, k - 1) \o SubSeq(s, k + 1, Len(s))

\* for f in walker.into_iter().flatten(): the next entry, when the traversal
\* may yield any of the entries whose parent it has yielded.
NextEntryAny ==
    /\ pc = "walk"
    /\ \E k \in 1..Len(walker) :
          /\ ~YieldsErr(walker[k])
          /\ path' = walker[k]
          /\ walker' = ChildPaths(walker[k]) \o RemoveAt(walker, k)
    /\ matches' = <<>>
    /\ i' = 0
    /\ pc' = "eval"
    /\ UNCHANGED <<config, mode, argrules, fs, argi, stack, added, rules, out>>

\* The rules the tags may declare: no MountPoint rule.
OrderMenu ==
    << CSuffix(<<>>, <<"a">>), CSymLinkDir(<<"a">>, None), CDir(<<"a">>),
       CTag("u") >>

\* Both tags are defined.
OrderConfigs ==
    { [base_path |-> <<"home">>, follow_links |-> FALSE, tags |-> tg] :
        tg \in [Tags -> Bodies(OrderMenu, MaxTagRules)] }

\* home/{a/{b}, c/{a}}
FsOrder ==
    (<<>> :> Dir(<<"a", "c">>)) @@ (<<"a">> :> Dir(<<"b">>))
    @@ (<<"a", "b">> :> File) @@ (<<"c">> :> Dir(<<"a">>))
    @@ (<<"c", "a">> :> File)

OrderInit ==
    /\ InitWith(OrderConfigs, {FsOrder})
    /\ argrules \in { <<"t">>, <<"t", "u">> }

OrderNext ==
    \/ CallAddRules
    \/ PopSkip
    \/ PopExpand
    \/ ReturnAddRules
    \/ StartWalk
    \/ NextEntryAny
    \/ EvalOne
    \/ Emit
    \/ WalkDone

OrderSpec == OrderInit /\ [][OrderNext]_vars

\* The order in which the entries are yielded when the entries of a
\* directory come in the order of its listing, and the run in that order.
ListingOrder == TraversalOrder(<< <<>> >>)

ListingRun ==
    LET c == CompileAll(mode, argrules, 0, EmptyTree)
    IN EvalPrefix(Count(mode, argrules), c.tree, ListingOrder, 1,
                  Len(ListingOrder), <<>>)

\* No rule that aborts the run: no MountPoint rule, no undefined tag.
NoFatalRule == NoMountPointDeclared /\ ~UndefinedReachable

\* C21: without fatal rules, in whatever order the traversal yields the
\* entries, a directory before the entries below it, every entry gets the
\* verdicts it gets in the run that takes the entries in listing order, and
\* the run prints the same set of paths, each once: the memoizing inserts
\* made in one subtree change no verdict in a sibling subtree.
C21_OrderIndependent ==
    NoFatalRule =>
        /\ pc # "panic"
        /\ EntryDone =>
              /\ matches = ListingRun.verdicts[IndexIn(path, ListingOrder)]
              /\ path \in Range(out) <=> path \in Range(RunOut(mode, argrules))
        /\ Range(out) \subseteq Range(RunOut(mode, argrules))
        /\ pc = "done" =>
              /\ Range(out) = Range(RunOut(mode, argrules))
              /\ Len(out) = Len(RunOut(mode, argrules))

\* A run has ended that visited the subtree of c before the subtree of a:
\* the suffix rule memoized at a, and c/a is printed before a.
C21_Witness ==
    /\ NoFatalRule
    /\ NoMaskDeclared
    /\ pc = "done"
    /\ out = << <<"c", "a">>, <<"a">>, <<"a", "b">> >>
    /\ RunOut(mode, argrules) = << <<"a">>, <<"a", "b">>, <<"c", "a">> >>
    /\ NodeRules(rules, <<"a">>, KeyOf(0)) = <<overwrite(Plain("t"))>>
    /\ NodeRules(rules, <<"c", "a">>, KeyOf(0)) = <<overwrite(Plain("t"))>>

====
